---------------------------- MODULE Spec2Model ----------------------------
(***************************************************************************)
(* Model of the Tauri backend in src/frontend-tauri/src-tauri/src/main.rs: *)
(* the five commands registered with invoke_handler, the filesystem they   *)
(* read and write, and the calls of the shell that are in flight.          *)
(*                                                                         *)
(* The commands are `async fn`s (and one plain fn) that Tauri runs on its  *)
(* runtime, so several calls may be in flight at once.  A handler without  *)
(* an await point runs to completion in one step.  write_project_file      *)
(* calls std::fs::write, which is File::create (open, create, truncate)    *)
(* followed by write_all on the new handle: two filesystem operations,     *)
(* between which other calls may run.                                      *)
(*                                                                         *)
(* Text is a sequence of Unicode code points; a file holds bytes.  The     *)
(* literal pieces of the format! strings are kept as ASCII (their emoji    *)
(* are left out of the literals).                                          *)
(***************************************************************************)
EXTENDS Integers, Sequences, FiniteSets

\* Longest content or message, in code points.
MaxLen == 1
\* Calls of the shell that may be in flight at once.
MaxCalls == 2
\* Commands the shell invokes in one run.
MaxInvocations == 3

VARIABLES
    fs,             \* the filesystem: path -> [exists, bytes]
    calls,          \* slot -> the write_project_file call suspended in it, if any
    returned,       \* the call that returned last: command, arguments, result
    invocations,    \* commands invoked so far
    everConnected,  \* history: some connect_mcp_server call has returned Ok
    lastWrite       \* history: path -> the last completed write of the path

vars == <<fs, calls, returned, invocations, everConnected, lastWrite>>

---------------------------------------------------------------------------
(* Text and bytes *)

\* 'A' (one byte in UTF-8) and e-acute (two bytes).
CodePoints == {65, 233}

RECURSIVE SeqsUpTo(_, _)
SeqsUpTo(S, n) ==
    IF n = 0 THEN {<<>>}
    ELSE LET shorter == SeqsUpTo(S, n - 1)
         IN  shorter \cup {Append(s, x) : s \in shorter, x \in S}

Strings == SeqsUpTo(CodePoints, MaxLen)

\* The messages the shell sends.
Messages == {<<65>>, <<233, 65>>}

\* String::as_bytes: the UTF-8 encoding of a String (one- and two-byte forms).
EncodeChar(cp) ==
    IF cp < 128 THEN <<cp>>
    ELSE <<192 + (cp \div 64), 128 + (cp % 64)>>

RECURSIVE Utf8Encode(_)
Utf8Encode(s) ==
    IF s = <<>> THEN <<>>
    ELSE EncodeChar(Head(s)) \o Utf8Encode(Tail(s))

IsContinuation(b) == b >= 128 /\ b <= 191

\* String::from_utf8 as read_to_string applies it: TRUE when the bytes are
\* well-formed UTF-8 (a lone continuation byte, an overlong lead or a cut-off
\* sequence is not).  The files here hold bytes below 224 only, so the three-
\* and four-byte forms never come up.
RECURSIVE Utf8Valid(_)
Utf8Valid(b) ==
    IF b = <<>> THEN TRUE
    ELSE IF b[1] < 128 THEN Utf8Valid(Tail(b))
    ELSE IF b[1] >= 194 /\ b[1] <= 223
         THEN /\ Len(b) >= 2
              /\ IsContinuation(b[2])
              /\ Utf8Valid(Tail(Tail(b)))
    ELSE FALSE

\* The code points of well-formed bytes.
RECURSIVE Utf8Decode(_)
Utf8Decode(b) ==
    IF b = <<>> THEN <<>>
    ELSE IF b[1] < 128 THEN <<b[1]>> \o Utf8Decode(Tail(b))
    ELSE <<(b[1] - 192) * 64 + (b[2] - 128)>> \o Utf8Decode(Tail(Tail(b)))

---------------------------------------------------------------------------
(* Formatted strings: the pieces of a format! in order *)

Lit(s) == [tag |-> "lit", s |-> s, t |-> <<>>]
Str(s) == [tag |-> "str", s |-> s, t |-> <<>>]
Txt(t) == [tag |-> "txt", s |-> "", t |-> t]

Ok(parts) == [kind |-> "Ok", parts |-> parts]
Err(parts) == [kind |-> "Err", parts |-> parts]
NoResult == [kind |-> "None", parts |-> <<>>]

---------------------------------------------------------------------------
(* The environment: paths, files, addresses *)

\* A file the user may write, a file the user may only read, and a path in a
\* directory that does not exist.
Paths == {"a.txt", "ro.txt", "nodir/c.txt"}

\* The io::Error of File::create on a path, "none" when it succeeds.
CreateError(p) ==
    IF p = "nodir/c.txt" THEN "NotFound"
    ELSE IF p = "ro.txt" THEN "PermissionDenied"
    ELSE "none"

NoFile == [exists |-> FALSE, bytes |-> <<>>]
File(b) == [exists |-> TRUE, bytes |-> b]

URLs == {"https://mofy.ai/sse", "https://agents.example/sse"}

\* Addresses no server answers at.
Unreachable == {"https://agents.example/sse"}

---------------------------------------------------------------------------
(* Calls *)

Slots == 1..MaxCalls

Idle == [pc |-> "idle", path |-> "", text |-> <<>>, clobbered |-> FALSE]

\* A write_project_file call between File::create and write_all.
Created(path, text) ==
    [pc |-> "created", path |-> path, text |-> text, clobbered |-> FALSE]

\* A call that has returned `result` to the shell.
Call(op, path, url, text, result) ==
    [op |-> op, path |-> path, url |-> url, text |-> text, result |-> result]

NoCall == Call("none", "", "", <<>>, NoResult)

\* The slot a new call takes: the first free one.
Free(k) ==
    /\ calls[k].pc = "idle"
    /\ \A j \in Slots : j < k => calls[j].pc # "idle"

CanInvoke == invocations < MaxInvocations

NoWrite == [set |-> FALSE, text |-> <<>>, clean |-> FALSE]

Init ==
    /\ fs \in {f \in [Paths -> {NoFile, File(<<65>>), File(<<195>>)}] :
                 /\ f["nodir/c.txt"] = NoFile
                 /\ f["ro.txt"] = File(<<65>>)}
    /\ calls = [k \in Slots |-> Idle]
    /\ returned = NoCall
    /\ invocations = 0
    /\ everConnected = FALSE
    /\ lastWrite = [p \in Paths |-> NoWrite]

---------------------------------------------------------------------------
(* The commands *)

WelcomeText == "Welcome to Mama Bear's Beautiful Family IDE! Ready to code with LOVE!"

\* A greeting that depends on what came before: another text on a repeat.
MamaBearGreetingAgain ==
    /\ CanInvoke
    /\ returned' = Call("greeting", "", "", <<>>,
                        IF returned.op = "greeting"
                        THEN Ok(<<Lit("Welcome back!")>>)
                        ELSE Ok(<<Lit(WelcomeText)>>))
    /\ invocations' = invocations + 1
    /\ UNCHANGED <<fs, calls, everConnected, lastWrite>>

\* mama_bear_greeting: the fixed string; no state is read or written.
MamaBearGreeting ==
    /\ CanInvoke
    /\ returned' = Call("greeting", "", "", <<>>, Ok(<<Lit(WelcomeText)>>))
    /\ invocations' = invocations + 1
    /\ UNCHANGED <<fs, calls, everConnected, lastWrite>>

\* connect_mcp_server: formats the confirmation; no connection is made and
\* nothing is stored (the body is the TODO and the Ok).
ConnectResult(url) ==
    Ok(<<Lit("Connected to Papa Bear at "), Str(url),
         Lit("! Family coordination ACTIVE!")>>)

ConnectMcpServer(url) ==
    /\ CanInvoke
    /\ returned' = Call("connect", "", url, <<>>, ConnectResult(url))
    /\ invocations' = invocations + 1
    /\ everConnected' = (everConnected \/ ConnectResult(url).kind = "Ok")
    /\ UNCHANGED <<fs, calls, lastWrite>>

\* send_family_message: formats the acknowledgment around the message; nothing
\* is sent and no session is consulted.
SendResult(message) ==
    Ok(<<Lit("Mama Bear received: '"), Txt(message),
         Lit("' - sending to family with LOVE!")>>)

SendFamilyMessage(message) ==
    /\ CanInvoke
    /\ returned' = Call("send", "", "", message, SendResult(message))
    /\ invocations' = invocations + 1
    /\ UNCHANGED <<fs, calls, everConnected, lastWrite>>

\* An Err arm that names the reason and not the file.
ReadErrorMessageNoPath(path, e) ==
    <<Lit("Couldn't read file: "), Str(e),
      Lit(" - but that's okay, we'll try again!")>>

\* The Err arm of read_project_file.
ReadErrorMessage(path, e) ==
    <<Lit("Couldn't read file "), Str(path), Lit(": "), Str(e),
      Lit(" - but that's okay, we'll try again!")>>

\* std::fs::read_to_string on a file, then the match of read_project_file.
ReadResult(file, path) ==
    IF ~file.exists THEN Err(ReadErrorMessage(path, "NotFound"))
    ELSE IF ~Utf8Valid(file.bytes) THEN Err(ReadErrorMessage(path, "InvalidData"))
    ELSE Ok(<<Txt(Utf8Decode(file.bytes))>>)

\* A read that opens the file with create set: a missing file comes to exist.
ReadProjectFileCreating(path) ==
    /\ CanInvoke
    /\ returned' = Call("read", path, "", <<>>, ReadResult(fs[path], path))
    /\ invocations' = invocations + 1
    /\ fs' = [fs EXCEPT ![path] =
                IF ~fs[path].exists /\ CreateError(path) = "none"
                THEN File(<<>>) ELSE fs[path]]
    /\ UNCHANGED <<calls, everConnected, lastWrite>>

ReadProjectFile(path) ==
    /\ CanInvoke
    /\ returned' = Call("read", path, "", <<>>, ReadResult(fs[path], path))
    /\ invocations' = invocations + 1
    /\ UNCHANGED <<fs, calls, everConnected, lastWrite>>

\* The Err arm of write_project_file.
WriteErrorMessage(path, e) ==
    <<Lit("Couldn't write to "), Str(path), Lit(": "), Str(e),
      Lit(" - but we believe in you!")>>

\* The Ok arm of write_project_file.
WriteOkMessage(path) ==
    <<Lit("Successfully wrote to "), Str(path), Lit(" with LOVE!")>>

\* The other write_project_file calls that hold an open handle on `path` see
\* the file change under them.
Clobber(k, path) ==
    [j \in Slots |->
        IF j # k /\ calls[j].pc = "created" /\ calls[j].path = path
        THEN [calls[j] EXCEPT !.clobbered = TRUE]
        ELSE calls[j]]

\* A create that opens the file without truncating it (OpenOptions with
\* write and create only): what is there stays.
CreatedFileKept(old) ==
    IF old.exists THEN old ELSE File(<<>>)

\* The file File::create leaves: it exists and is empty, whatever was there.
CreatedFile(old) ==
    File(<<>>)

\* write_project_file, first half: File::create of std::fs::write.  It fails
\* when the parent directory is missing or the file may not be written;
\* otherwise the file now exists and is empty, and the call goes on to write_all.
WriteCreate(k, path, content) ==
    /\ CanInvoke
    /\ invocations' = invocations + 1
    /\ UNCHANGED everConnected
    /\ \/ /\ CreateError(path) # "none"
          /\ returned' = Call("write", path, "", content,
                              Err(WriteErrorMessage(path, CreateError(path))))
          /\ UNCHANGED <<fs, calls, lastWrite>>
       \/ /\ CreateError(path) = "none"
          /\ Free(k)
          /\ fs' = [fs EXCEPT ![path] = CreatedFile(fs[path])]
          /\ calls' = [Clobber(k, path) EXCEPT ![k] = Created(path, content)]
          /\ lastWrite' = [lastWrite EXCEPT ![path] = NoWrite]
          /\ UNCHANGED returned

\* A write at offset 0 of a handle: the data over the start of what is there.
Overwrite(old, data) ==
    data \o SubSeq(old, Len(data) + 1, Len(old))

\* write_project_file, second half: write_all of std::fs::write and the match.
\* The write succeeds, or fails (the disk is full) after a part of the data.
WriteAll(k) ==
    LET c == calls[k]
        data == Utf8Encode(c.text)
    IN  /\ c.pc = "created"
        /\ UNCHANGED <<invocations, everConnected>>
        /\ \/ /\ fs' = [fs EXCEPT ![c.path] = File(Overwrite(fs[c.path].bytes, data))]
              /\ calls' = [Clobber(k, c.path) EXCEPT ![k] = Idle]
              /\ returned' = Call("write", c.path, "", c.text, Ok(WriteOkMessage(c.path)))
              /\ lastWrite' = [lastWrite EXCEPT ![c.path] =
                    [set |-> TRUE, text |-> c.text, clean |-> ~c.clobbered]]
           \/ \E n \in 0..(Len(data) - 1) :
              /\ fs' = [fs EXCEPT ![c.path] =
                    File(Overwrite(fs[c.path].bytes, SubSeq(data, 1, n)))]
              /\ calls' = [Clobber(k, c.path) EXCEPT ![k] = Idle]
              /\ returned' = Call("write", c.path, "", c.text,
                                  Err(WriteErrorMessage(c.path, "StorageFull")))
              /\ lastWrite' = [lastWrite EXCEPT ![c.path] = NoWrite]

Next ==
    \/ MamaBearGreeting
    \/ \E url \in URLs : ConnectMcpServer(url)
    \/ \E message \in Messages : SendFamilyMessage(message)
    \/ \E path \in Paths : ReadProjectFile(path)
    \/ \E k \in Slots, path \in Paths, content \in Strings : WriteCreate(k, path, content)
    \/ \E k \in Slots : WriteAll(k)

Spec == Init /\ [][Next]_vars

---------------------------------------------------------------------------
(* Properties *)

\* The pieces of a result's string.
Parts(r) == {r.parts[i] : i \in 1..Len(r.parts)}

\* The calls that have returned: those invoked less those suspended.
Returns == invocations - Cardinality({k \in Slots : calls[k].pc = "created"})

\* C1: in every state reached without a prior successful connect, a
\* send_family_message call returns an error and never a success string.
C1_SendBeforeConnectFails ==
    (returned.op = "send" /\ ~everConnected) => returned.result.kind = "Err"

\* C3: a connect_mcp_server call to an address no server answers at returns
\* an error and never a success confirmation.
C3_UnreachableConnectFails ==
    (returned.op = "connect" /\ returned.url \in Unreachable)
        => returned.result.kind = "Err"

\* C6, as stated: a read_project_file of a path returns exactly the content
\* of the last write_project_file of it that succeeded, when no write of the
\* path came between that write's return and the read.
C6_RoundTripAsStated ==
    (returned.op = "read" /\ lastWrite[returned.path].set)
        => returned.result = Ok(<<Txt(lastWrite[returned.path].text)>>)

\* C6, amended: a read_project_file of a path returns exactly the content of
\* the last write_project_file of it that succeeded, when no other write of
\* the path created or wrote the file between that write's start and the read.
C6_RoundTrip ==
    (/\ returned.op = "read"
     /\ lastWrite[returned.path].set
     /\ lastWrite[returned.path].clean)
        => returned.result = Ok(<<Txt(lastWrite[returned.path].text)>>)

\* A read gave back the two-byte character an undisturbed write had put in a.txt.
C6_Witness ==
    /\ returned.op = "read"
    /\ returned.path = "a.txt"
    /\ lastWrite["a.txt"] = [set |-> TRUE, text |-> <<233>>, clean |-> TRUE]
    /\ returned.result = Ok(<<Txt(<<233>>)>>)

\* C7: read_project_file of a path at which no file exists returns an error
\* that carries the path and the reason, and never a success.
C7_ReadMissingFails ==
    (returned.op = "read" /\ ~fs[returned.path].exists)
        => /\ returned.result.kind = "Err"
           /\ Str(returned.path) \in Parts(returned.result)
           /\ Str("NotFound") \in Parts(returned.result)

\* A read of a.txt returned while a.txt did not exist.
C7_Witness ==
    /\ returned.op = "read"
    /\ returned.path = "a.txt"
    /\ ~fs["a.txt"].exists
    /\ returned.result.kind = "Err"

\* C9: every mama_bear_greeting call returns Ok with the one fixed welcome
\* string, and the step changes neither the filesystem nor a call in flight.
C9_GreetingFixed ==
    [][(returned'.op = "greeting" /\ Returns' # Returns)
        => /\ returned'.result =
                Ok(<<Lit("Welcome to Mama Bear's Beautiful Family IDE! Ready to code with LOVE!")>>)
           /\ fs' = fs
           /\ calls' = calls]_vars

\* A greeting returned after a write had changed a.txt and while another
\* write was in flight.
C9_Witness ==
    /\ returned.op = "greeting"
    /\ returned.result.kind = "Ok"
    /\ lastWrite["a.txt"].set
    /\ \E k \in Slots : calls[k].pc = "created"

\* A step of write_project_file on path p: its File::create or its write_all.
WriteStepOn(p) ==
    \E k \in Slots :
        \/ calls[k].pc = "idle" /\ calls'[k].pc = "created" /\ calls'[k].path = p
        \/ calls[k].pc = "created" /\ calls[k].path = p /\ calls'[k].pc = "idle"

\* C10: the content of a path changes only in a step of a write_project_file
\* call on that path; every other command, and a write of another path,
\* leaves it as it was.
C10_OnlyWriteChangesFile ==
    [][\A p \in Paths : fs'[p] # fs[p] => WriteStepOn(p)]_vars

\* A write of a.txt succeeded and a read of another path followed; the other
\* files are as they were at the start.
C10_Witness ==
    /\ returned.op = "read"
    /\ returned.path = "ro.txt"
    /\ returned.result = Ok(<<Txt(<<65>>)>>)
    /\ lastWrite["a.txt"].set
    /\ fs["a.txt"] = File(<<195, 169>>)
    /\ fs["nodir/c.txt"] = NoFile

=============================================================================
